---- MODULE Spec2Model ----
(***************************************************************************)
(* Product REST service: the route handlers of service/routes.py over the  *)
(* Product persistence interface (find / create / update / serialize /     *)
(* deserialize), one HTTP request per step.                                *)
(***************************************************************************)
EXTENDS Integers, Sequences, FiniteSets, TLC

VARIABLES db, before, request, response, created

vars == <<db, before, request, response, created>>

\* Number of products the model lets Create persist.
MaxProducts == 2

----------------------------------------------------------------------------
\* HTTP status codes used by the handlers.
HTTP_200_OK == 200
HTTP_201_CREATED == 201
HTTP_400_BAD_REQUEST == 400
HTTP_404_NOT_FOUND == 404
HTTP_405_METHOD_NOT_ALLOWED == 405
HTTP_415_UNSUPPORTED_MEDIA_TYPE == 415

----------------------------------------------------------------------------
\* Decimal rendering of an integer, as an f-string renders product_id.
DigitChar == <<"0", "1", "2", "3", "4", "5", "6", "7", "8", "9">>

RECURSIVE NatToStr(_)
NatToStr(n) ==
    IF n < 10 THEN DigitChar[n + 1]
    ELSE NatToStr(n \div 10) \o DigitChar[(n % 10) + 1]

IntToStr(n) == IF n < 0 THEN "-" \o NatToStr(-n) ELSE NatToStr(n)

\* The integer a decimal rendering stands for (the ids the model can hold).
ParseInt(s) == CHOOSE k \in 0..(MaxProducts + 2) : IntToStr(k) = s

----------------------------------------------------------------------------
\* JSON values: a tagged scalar, an array, or an object (a function from
\* member names to JSON values).
JStr(s) == [type |-> "string", val |-> s]
JInt(n) == [type |-> "number", val |-> IntToStr(n)]
JNum(text) == [type |-> "number", val |-> text]
JNull == [type |-> "null", val |-> "null"]
JArray == [type |-> "array", val |-> "[]"]
JObject(m) == [type |-> "object", members |-> m]

NoJson == [type |-> "none"]

\* The id of a Product that has not been persisted (Python None); the
\* auto-increment key never assigns it.
NoId == 0

\* Responses.  message is the description given to abort(); json is the
\* jsonify()-ed body of a success; location is the Location header.
Reply(status, json, location) ==
    [status |-> status, message |-> "", json |-> json, location |-> location]

abort(status, message) ==
    [status |-> status, message |-> message, json |-> NoJson, location |-> ""]

\* A handler's outcome: the response and the store it leaves.
Outcome(resp, store) == [response |-> resp, db |-> store]

----------------------------------------------------------------------------
\* Product model (service/models.py).

\* Product(): a transient instance.
NewProduct ==
    [id |-> NoId, name |-> "", sku |-> "", description |-> "",
     price |-> "", image_url |-> ""]

\* Product.find(by_id): the row with that key, or None.
find(store, by_id) ==
    IF by_id \in DOMAIN store.rows
    THEN [found |-> TRUE, product |-> store.rows[by_id]]
    ELSE [found |-> FALSE, product |-> NewProduct]

\* The members deserialize() requires, in the order it reads them.
RequiredFields == <<"name", "sku", "description", "price">>

FieldTypes(field) ==
    IF field = "price" THEN {"string", "number"} ELSE {"string"}

SetField(product, field, v) ==
    CASE field = "name" -> [product EXCEPT !.name = v]
      [] field = "sku" -> [product EXCEPT !.sku = v]
      [] field = "description" -> [product EXCEPT !.description = v]
      [] field = "price" -> [product EXCEPT !.price = v]
      [] field = "image_url" -> [product EXCEPT !.image_url = v]

\* Assigns the required members one after the other onto the instance and
\* stops at the first one that is missing or of the wrong type.
RECURSIVE AssignFields(_, _, _)
AssignFields(product, members, i) ==
    IF i > Len(RequiredFields) THEN [ok |-> TRUE, product |-> product, message |-> ""]
    ELSE LET field == RequiredFields[i] IN
         IF field \notin DOMAIN members
         THEN [ok |-> FALSE, product |-> product,
               message |-> "Invalid Product: missing " \o field]
         ELSE IF members[field].type \notin FieldTypes(field)
         THEN [ok |-> FALSE, product |-> product,
               message |-> "Invalid Product: bad type for " \o field]
         ELSE AssignFields(SetField(product, field, members[field].val), members, i + 1)

\* product.deserialize(data): populates the instance from a JSON object; the
\* id is never taken from the data.  ok = FALSE stands for DataValidationError,
\* and product is then the instance as far as it was overwritten.
deserialize(product, data) ==
    IF data.type # "object"
    THEN [ok |-> FALSE, product |-> product,
          message |-> "Invalid Product: body of request contained bad or no data"]
    ELSE LET r == AssignFields(product, data.members, 1) IN
         IF ~r.ok THEN r
         ELSE IF "image_url" \notin DOMAIN data.members
              THEN [r EXCEPT !.product = SetField(r.product, "image_url", "")]
         ELSE IF data.members["image_url"].type # "string"
              THEN [ok |-> FALSE, product |-> r.product,
                    message |-> "Invalid Product: bad type for image_url"]
         ELSE [r EXCEPT !.product =
                   SetField(r.product, "image_url", data.members["image_url"].val)]

\* product.serialize(): the JSON object of the instance.
serialize(product) ==
    JObject([id |-> JInt(product.id),
             name |-> JStr(product.name),
             sku |-> JStr(product.sku),
             description |-> JStr(product.description),
             price |-> JStr(product.price),
             image_url |-> JStr(product.image_url)])

\* product.create(): the store assigns the next key and inserts the row.
create(store, product) ==
    LET new_id == store.seq + 1 IN
    [product |-> [product EXCEPT !.id = new_id],
     db |-> [rows |-> (new_id :> [product EXCEPT !.id = new_id]) @@ store.rows,
             seq |-> new_id]]

\* product.update(): rewrites the row whose key is product.id.
update(store, product) ==
    [store EXCEPT !.rows = [k \in DOMAIN store.rows |->
                               IF k = product.id THEN product ELSE store.rows[k]]]

----------------------------------------------------------------------------
\* Request pieces.

HasHeader(headers, name) == \E h \in headers : h[1] = name

HeaderValue(headers, name) == (CHOOSE h \in headers : h[1] = name)[2]

\* request.get_json(): the parsed body, or a 400 when the body does not parse.
get_json(req) ==
    IF req.body.wellformed
    THEN [ok |-> TRUE, data |-> req.body.data]
    ELSE [ok |-> FALSE, data |-> JNull]

----------------------------------------------------------------------------
\* Utility functions.

ContentTypeMessage(content_type) == "Content-Type must be " \o content_type

\* The media type of a Content-Type value, without its parameters.
MediaTypeOf(value) ==
    IF value = "application/json; charset=utf-8" THEN "application/json" ELSE value

check_content_type_media_type(content_type, req) ==
    IF ~HasHeader(req.headers, "Content-Type")
    THEN [ok |-> FALSE,
          response |-> abort(HTTP_415_UNSUPPORTED_MEDIA_TYPE,
                             ContentTypeMessage(content_type))]
    ELSE IF MediaTypeOf(HeaderValue(req.headers, "Content-Type")) = content_type
    THEN [ok |-> TRUE, response |-> NoJson]
    ELSE [ok |-> FALSE,
          response |-> abort(HTTP_415_UNSUPPORTED_MEDIA_TYPE,
                             ContentTypeMessage(content_type))]

\* check_content_type(content_type): ok, or the 415 it aborts with.
check_content_type(content_type, req) ==
    IF ~HasHeader(req.headers, "Content-Type")
    THEN [ok |-> FALSE,
          response |-> abort(HTTP_415_UNSUPPORTED_MEDIA_TYPE,
                             ContentTypeMessage(content_type))]
    ELSE IF HeaderValue(req.headers, "Content-Type") = content_type
    THEN [ok |-> TRUE, response |-> NoJson]
    ELSE [ok |-> FALSE,
          response |-> abort(HTTP_415_UNSUPPORTED_MEDIA_TYPE,
                             ContentTypeMessage(content_type))]

\* The URL rule of the item endpoints with its <int:product_id> filled in.
ItemPath(product_id) == "/products/" \o IntToStr(product_id)

\* url_for(endpoint, product_id=..., _external=...).
url_for(endpoint, product_id, external, req) ==
    (IF external THEN req.url_root ELSE "") \o ItemPath(product_id)

NotFoundMessage(product_id) ==
    "Product with id '" \o IntToStr(product_id) \o "' was not found."

BadJsonMessage == "Failed to decode JSON object"

----------------------------------------------------------------------------
\* GET /
index(store, req) ==
    Outcome(Reply(HTTP_200_OK,
                  JObject([name |-> JStr("Products REST API Service"),
                           version |-> JStr("0.1.0"),
                           status |-> JStr("online")]),
                  ""),
            store)

\* The endpoints index() advertises.
AdvertisedEndpoints ==
    {<<"POST", "/products">>, <<"GET", "/products/<product_id>">>,
     <<"GET", "/products">>, <<"PUT", "/products/<product_id>">>,
     <<"DELETE", "/products/<product_id>">>}

----------------------------------------------------------------------------
\* POST /products

create_products_unsaved(store, req) ==
    LET guard == check_content_type("application/json", req) IN
    IF ~guard.ok THEN Outcome(guard.response, store)
    ELSE LET parsed == get_json(req) IN
    IF ~parsed.ok THEN Outcome(abort(HTTP_400_BAD_REQUEST, BadJsonMessage), store)
    ELSE LET d == deserialize(NewProduct, parsed.data) IN
    IF ~d.ok THEN Outcome(abort(HTTP_400_BAD_REQUEST, d.message), store)
    ELSE LET c == create(store, d.product)
             location_url == url_for("get_products", c.product.id, TRUE, req)
         IN Outcome(Reply(HTTP_201_CREATED, serialize(c.product), location_url),
                    [store EXCEPT !.seq = c.db.seq])

create_products_parse_first(store, req) ==
    LET parsed == get_json(req) IN
    IF ~parsed.ok THEN Outcome(abort(HTTP_400_BAD_REQUEST, BadJsonMessage), store)
    ELSE LET guard == check_content_type("application/json", req) IN
    IF ~guard.ok THEN Outcome(guard.response, store)
    ELSE LET d == deserialize(NewProduct, parsed.data) IN
    IF ~d.ok THEN Outcome(abort(HTTP_400_BAD_REQUEST, d.message), store)
    ELSE LET c == create(store, d.product)
             location_url == url_for("get_products", c.product.id, TRUE, req)
         IN Outcome(Reply(HTTP_201_CREATED, serialize(c.product), location_url), c.db)

create_products_stale_location(store, req) ==
    LET guard == check_content_type("application/json", req) IN
    IF ~guard.ok THEN Outcome(guard.response, store)
    ELSE LET parsed == get_json(req) IN
    IF ~parsed.ok THEN Outcome(abort(HTTP_400_BAD_REQUEST, BadJsonMessage), store)
    ELSE LET d == deserialize(NewProduct, parsed.data) IN
    IF ~d.ok THEN Outcome(abort(HTTP_400_BAD_REQUEST, d.message), store)
    ELSE LET location_url == url_for("get_products", d.product.id, TRUE, req)
             c == create(store, d.product)
         IN Outcome(Reply(HTTP_201_CREATED, serialize(c.product), location_url), c.db)

create_products(store, req) ==
    LET guard == check_content_type("application/json", req) IN
    IF ~guard.ok THEN Outcome(guard.response, store)
    ELSE LET parsed == get_json(req) IN
    IF ~parsed.ok THEN Outcome(abort(HTTP_400_BAD_REQUEST, BadJsonMessage), store)
    ELSE LET d == deserialize(NewProduct, parsed.data) IN
    IF ~d.ok THEN Outcome(abort(HTTP_400_BAD_REQUEST, d.message), store)
    ELSE LET c == create(store, d.product)
             location_url == url_for("get_products", c.product.id, TRUE, req)
         IN Outcome(Reply(HTTP_201_CREATED, serialize(c.product), location_url), c.db)

----------------------------------------------------------------------------
\* GET /products/<int:product_id>

get_products_falsy_id(store, product_id) ==
    LET f == find(store, product_id) IN
    IF product_id = 0
    THEN Outcome(abort(HTTP_400_BAD_REQUEST, "Product id is required."), store)
    ELSE IF ~f.found
    THEN Outcome(abort(HTTP_404_NOT_FOUND, NotFoundMessage(product_id)), store)
    ELSE Outcome(Reply(HTTP_200_OK, serialize(f.product), ""), store)

get_products(store, product_id) ==
    LET f == find(store, product_id) IN
    IF ~f.found
    THEN Outcome(abort(HTTP_404_NOT_FOUND, NotFoundMessage(product_id)), store)
    ELSE Outcome(Reply(HTTP_200_OK, serialize(f.product), ""), store)

----------------------------------------------------------------------------
\* PUT /products/<int:product_id>

update_products_upsert(store, req) ==
    LET f == find(store, req.product_id) IN
    LET guard == check_content_type("application/json", req) IN
    IF ~guard.ok THEN Outcome(guard.response, store)
    ELSE LET parsed == get_json(req) IN
    IF ~parsed.ok THEN Outcome(abort(HTTP_400_BAD_REQUEST, BadJsonMessage), store)
    ELSE LET d == deserialize([f.product EXCEPT !.id = req.product_id], parsed.data) IN
    IF ~d.ok THEN Outcome(abort(HTTP_400_BAD_REQUEST, d.message), store)
    ELSE Outcome(Reply(HTTP_200_OK, serialize(d.product), ""),
                 [store EXCEPT !.rows = (req.product_id :> d.product) @@ store.rows])

update_products_body_id(store, req) ==
    LET f == find(store, req.product_id) IN
    IF ~f.found
    THEN Outcome(abort(HTTP_404_NOT_FOUND, NotFoundMessage(req.product_id)), store)
    ELSE LET guard == check_content_type("application/json", req) IN
    IF ~guard.ok THEN Outcome(guard.response, store)
    ELSE LET parsed == get_json(req) IN
    IF ~parsed.ok THEN Outcome(abort(HTTP_400_BAD_REQUEST, BadJsonMessage), store)
    ELSE LET d == deserialize(f.product, parsed.data) IN
    IF ~d.ok THEN Outcome(abort(HTTP_400_BAD_REQUEST, d.message), store)
    ELSE LET p == IF "id" \in DOMAIN parsed.data.members
                  THEN [d.product EXCEPT !.id = ParseInt(parsed.data.members["id"].val)]
                  ELSE d.product
         IN Outcome(Reply(HTTP_200_OK, serialize(p), ""), update(store, p))

update_products_guard_first(store, req) ==
    LET guard == check_content_type("application/json", req) IN
    IF ~guard.ok THEN Outcome(guard.response, store)
    ELSE LET f == find(store, req.product_id) IN
    IF ~f.found
    THEN Outcome(abort(HTTP_404_NOT_FOUND, NotFoundMessage(req.product_id)), store)
    ELSE LET parsed == get_json(req) IN
    IF ~parsed.ok THEN Outcome(abort(HTTP_400_BAD_REQUEST, BadJsonMessage), store)
    ELSE LET d == deserialize(f.product, parsed.data) IN
    IF ~d.ok THEN Outcome(abort(HTTP_400_BAD_REQUEST, d.message), store)
    ELSE Outcome(Reply(HTTP_200_OK, serialize(d.product), ""),
                 update(store, d.product))

update_products_saves_partial(store, req) ==
    LET f == find(store, req.product_id) IN
    IF ~f.found
    THEN Outcome(abort(HTTP_404_NOT_FOUND, NotFoundMessage(req.product_id)), store)
    ELSE LET guard == check_content_type("application/json", req) IN
    IF ~guard.ok THEN Outcome(guard.response, store)
    ELSE LET parsed == get_json(req) IN
    IF ~parsed.ok THEN Outcome(abort(HTTP_400_BAD_REQUEST, BadJsonMessage), store)
    ELSE LET d == deserialize(f.product, parsed.data) IN
    IF ~d.ok THEN Outcome(abort(HTTP_400_BAD_REQUEST, d.message),
                          update(store, d.product))
    ELSE Outcome(Reply(HTTP_200_OK, serialize(d.product), ""),
                 update(store, d.product))

update_products(store, req) ==
    LET f == find(store, req.product_id) IN
    IF ~f.found
    THEN Outcome(abort(HTTP_404_NOT_FOUND, NotFoundMessage(req.product_id)), store)
    ELSE LET guard == check_content_type("application/json", req) IN
    IF ~guard.ok THEN Outcome(guard.response, store)
    ELSE LET parsed == get_json(req) IN
    IF ~parsed.ok THEN Outcome(abort(HTTP_400_BAD_REQUEST, BadJsonMessage), store)
    ELSE LET d == deserialize(f.product, parsed.data) IN
    IF ~d.ok THEN Outcome(abort(HTTP_400_BAD_REQUEST, d.message), store)
    ELSE Outcome(Reply(HTTP_200_OK, serialize(d.product), ""),
                 update(store, d.product))

----------------------------------------------------------------------------
\* Routing: the URL rules the @app.route decorators register.

RootRule == "/"
CollectionRule == "/products"
ItemRule == "/products/<int:product_id>"

\* rule -> the methods registered for it.
url_map ==
    [rule \in {RootRule, CollectionRule, ItemRule} |->
        CASE rule = RootRule -> {"GET"}
          [] rule = CollectionRule -> {"POST"}
          [] rule = ItemRule -> {"GET", "PUT"}]

\* The int converter of <int:product_id> matches unsigned digits only.
IntConverterMatches(product_id) == product_id >= 0

UrlNotFoundMessage == "The requested URL was not found on the server."
MethodNotAllowedMessage == "The method is not allowed for the requested URL."

\* One request through the router to its handler.
dispatch(store, req) ==
    IF req.rule = ItemRule /\ ~IntConverterMatches(req.product_id)
    THEN Outcome(abort(HTTP_404_NOT_FOUND, UrlNotFoundMessage), store)
    ELSE IF req.method \notin url_map[req.rule]
    THEN Outcome(abort(HTTP_405_METHOD_NOT_ALLOWED, MethodNotAllowedMessage), store)
    ELSE CASE req.rule = RootRule -> index(store, req)
           [] req.rule = CollectionRule -> create_products(store, req)
           [] req.rule = ItemRule /\ req.method = "GET" ->
                  get_products(store, req.product_id)
           [] req.rule = ItemRule /\ req.method = "PUT" ->
                  update_products(store, req)

----------------------------------------------------------------------------
\* The requests the model sends.

NoHeaders == {}
ContentType(value) == {<<"Content-Type", value>>}

HeaderSets ==
    {NoHeaders, ContentType("application/json"),
     ContentType("application/json; charset=utf-8"), ContentType("text/plain")}

Body(data) == [wellformed |-> TRUE, data |-> data]
MalformedBody == [wellformed |-> FALSE, data |-> JNull]
EmptyBody == [wellformed |-> FALSE, data |-> JNull]

WidgetBody ==
    Body(JObject([name |-> JStr("Widget"), sku |-> JStr("AB123CD"),
                  description |-> JStr("basic widget"), price |-> JStr("9.99"),
                  image_url |-> JStr("http://x/img.png")]))

\* Carries an id member, and leaves the optional image_url out.
GadgetBody ==
    Body(JObject([id |-> JInt(1), name |-> JStr("Gadget"), sku |-> JStr("ZZ9999ZZ"),
                  description |-> JStr("a gadget"), price |-> JNum("19.99")]))

ArrayBody == Body(JArray)

MissingPriceBody ==
    Body(JObject([name |-> JStr("Gizmo"), sku |-> JStr("GZ0001MO"),
                  description |-> JStr("a gizmo")]))

MissingNameBody ==
    Body(JObject([sku |-> JStr("AB123CD"), description |-> JStr("basic widget"),
                  price |-> JStr("9.99")]))

BadPriceBody ==
    Body(JObject([name |-> JStr("Gizmo"), sku |-> JStr("GZ0001MO"),
                  description |-> JStr("a gizmo"), price |-> JArray]))

ValidBodies == {WidgetBody, GadgetBody}
InvalidBodies ==
    {MalformedBody, ArrayBody, MissingPriceBody, MissingNameBody, BadPriceBody}
Bodies == ValidBodies \cup InvalidBodies

UrlRoots == {"http://localhost", "https://shop.example.com"}

\* The ids a path can name: a negative one, 0, stored ones and one past them.
PathIds == -1 .. (MaxProducts + 1)

Request(method, rule, product_id, headers, body, url_root) ==
    [method |-> method, rule |-> rule, product_id |-> product_id,
     headers |-> headers, body |-> body, url_root |-> url_root]

ReadRequest(product_id) ==
    Request("GET", ItemRule, product_id, NoHeaders, EmptyBody, "http://localhost")

NoRequest == Request("", "", NoId, NoHeaders, EmptyBody, "")
NoResponse == abort(0, "")

\* The id member of a response body.
ResponseId(json) == ParseInt(json.members["id"].val)

----------------------------------------------------------------------------
TypeOK ==
    /\ db.seq \in 0..MaxProducts
    /\ DOMAIN db.rows \subseteq 1..MaxProducts
    /\ response.status \in {0, 200, 201, 400, 404, 405, 415}
    /\ Len(created) <= MaxProducts

Init ==
    /\ db = [rows |-> <<>>, seq |-> 0]
    /\ before = db
    /\ request = NoRequest
    /\ response = NoResponse
    /\ created = <<>>

\* The server handles one request.
Serve(method, rule, product_id, headers, body, url_root) ==
    LET req == Request(method, rule, product_id, headers, body, url_root)
        out == dispatch(db, req)
    IN
    /\ request' = req
    /\ response' = out.response
    /\ db' = out.db
    /\ before' = db
    /\ created' = IF out.response.status = HTTP_201_CREATED
                  THEN Append(created, ResponseId(out.response.json))
                  ELSE created

IndexReq ==
    Serve("GET", RootRule, NoId, NoHeaders, EmptyBody, "http://localhost")

CreateReq ==
    /\ db.seq < MaxProducts
    /\ \E headers \in HeaderSets, body \in Bodies, url_root \in UrlRoots :
          Serve("POST", CollectionRule, NoId, headers, body, url_root)

ReadReq ==
    \E product_id \in PathIds :
        Serve("GET", ItemRule, product_id, NoHeaders, EmptyBody, "http://localhost")

UpdateReq ==
    \E product_id \in PathIds, headers \in HeaderSets, body \in Bodies :
        Serve("PUT", ItemRule, product_id, headers, body, "http://localhost")

DeleteReq ==
    \E product_id \in PathIds :
        Serve("DELETE", ItemRule, product_id, NoHeaders, EmptyBody, "http://localhost")

Next == IndexReq \/ CreateReq \/ ReadReq \/ UpdateReq \/ DeleteReq

Spec == Init /\ [][Next]_vars

----------------------------------------------------------------------------
\* What the last request was, and what a client reads from a response.

IsCreate == request.method = "POST" /\ request.rule = CollectionRule
IsRead == request.method = "GET" /\ request.rule = ItemRule
IsUpdate == request.method = "PUT" /\ request.rule = ItemRule
IsDelete == request.method = "DELETE" /\ request.rule = ItemRule

ExactJson == <<"Content-Type", "application/json">> \in request.headers

StoredBefore == request.product_id \in DOMAIN before.rows

\* A Read (GET /products/{id}) sent to the server in the store given.
ReadOf(store, product_id) == dispatch(store, ReadRequest(product_id)).response

\* The response body carries the field values of the request body.
CarriesFieldsOf(json, data) ==
    /\ json.type = "object"
    /\ \A f \in {"name", "sku", "description", "price"} :
          json.members[f].val = data.members[f].val
    /\ json.members["image_url"].val =
          (IF "image_url" \in DOMAIN data.members
           THEN data.members["image_url"].val ELSE "")

----------------------------------------------------------------------------
\* C1: every successful Create (201) returns an id that no earlier Create
\* returned and no stored product had, and a Read of a created id afterwards
\* answers 200; right after the Create it answers with the created product.
C1_CreateIdUniqueAndReadable ==
    /\ \A i, j \in DOMAIN created : i # j => created[i] # created[j]
    /\ \A i \in DOMAIN created :
          /\ ReadOf(db, created[i]).status = 200
          /\ ResponseId(ReadOf(db, created[i]).json) = created[i]
    /\ (IsCreate /\ response.status = 201) =>
          LET id == ResponseId(response.json) IN
          /\ id \notin DOMAIN before.rows
          /\ created[Len(created)] = id
          /\ ReadOf(db, id).status = 200
          /\ ReadOf(db, id).json = response.json
          /\ CarriesFieldsOf(response.json, request.body.data)

C1_Witness ==
    /\ Len(created) >= 2
    /\ IsRead /\ request.product_id = created[2] /\ response.status = 200
    /\ \E k \in DOMAIN db.rows : db.rows[k].name # db.rows[request.product_id].name

\* C2: an Update of an id that is not in the store answers 404 and leaves
\* the store as it was, whatever the headers and the body are.
C2_UpdateMissingIs404AndNoChange ==
    (IsUpdate /\ ~StoredBefore) => (response.status = 404 /\ db = before)

C2_Witness ==
    /\ IsUpdate /\ ~StoredBefore /\ request.product_id > 0
    /\ ExactJson /\ request.body \in ValidBodies
    /\ DOMAIN before.rows # {}
    /\ response.status = 404

\* C3: an Update of a stored id with Content-Type application/json and a
\* valid product body answers 200, keeps the record under the path id (the
\* body's id is not taken), stores the supplied values, leaves the other
\* records alone, and a Read of the id then returns the updated values.
C3_UpdateReplacesFieldsKeepsId ==
    (IsUpdate /\ StoredBefore /\ ExactJson /\ request.body \in ValidBodies) =>
        LET id == request.product_id IN
        /\ response.status = 200
        /\ DOMAIN db.rows = DOMAIN before.rows
        /\ db.seq = before.seq
        /\ db.rows[id].id = id
        /\ response.json.members["id"] = JInt(id)
        /\ CarriesFieldsOf(response.json, request.body.data)
        /\ db.rows[id].name = request.body.data.members["name"].val
        /\ db.rows[id].price = request.body.data.members["price"].val
        /\ \A k \in DOMAIN before.rows \ {id} : db.rows[k] = before.rows[k]
        /\ ReadOf(db, id).status = 200
        /\ ReadOf(db, id).json = response.json

C3_Witness ==
    /\ IsUpdate /\ StoredBefore /\ ExactJson /\ response.status = 200
    /\ "id" \in DOMAIN request.body.data.members
    /\ request.body.data.members["id"] # JInt(request.product_id)
    /\ Cardinality(DOMAIN before.rows) >= 2
    /\ before.rows[request.product_id].name # db.rows[request.product_id].name

\* C4 (as stated): Create and Update without Content-Type application/json
\* always answer 415, with it and an invalid body always 400, and never 5xx
\* (taken over the path ids the Update route accepts).
C4_AsStated ==
    (IsCreate \/ (IsUpdate /\ request.product_id >= 0)) =>
        /\ ~ExactJson => response.status = 415
        /\ (ExactJson /\ request.body \in InvalidBodies) => response.status = 400
        /\ response.status < 500

\* C4 (amended): Create, and Update of a stored id, answer 415 without
\* Content-Type application/json and 400 with it and an invalid body; an
\* Update of an id that is not stored answers 404 whatever it carries; none
\* answers 5xx.
C4_ErrorStatuses ==
    /\ (IsCreate \/ (IsUpdate /\ StoredBefore)) =>
          /\ ~ExactJson => response.status = 415
          /\ (ExactJson /\ request.body \in InvalidBodies) => response.status = 400
    /\ (IsUpdate /\ ~StoredBefore) => response.status = 404
    /\ (IsCreate \/ IsUpdate) => response.status < 500

C4_Witness ==
    /\ IsUpdate /\ StoredBefore /\ ExactJson
    /\ request.body = MalformedBody
    /\ response.status = 400

\* C5 (as stated): a Read of an id that is not in the store answers 404 with
\* the message naming the id, for every integer id, and changes nothing.
C5_AsStated ==
    (IsRead /\ ~StoredBefore) =>
        /\ response.status = 404
        /\ response.message =
              "Product with id '" \o IntToStr(request.product_id) \o "' was not found."
        /\ db = before

\* C5 (amended): a Read of a non-negative id (0 included) that is not in the
\* store answers 404 with the message naming the id; a negative id does not
\* match the route and gets the router's 404; no Read changes the store.
C5_ReadMissingIs404 ==
    /\ (IsRead /\ ~StoredBefore /\ request.product_id >= 0) =>
          /\ response.status = 404
          /\ response.message =
                "Product with id '" \o IntToStr(request.product_id)
                    \o "' was not found."
          /\ request.product_id = 0 =>
                response.message = "Product with id '0' was not found."
    /\ (IsRead /\ request.product_id < 0) => response.status = 404
    /\ IsRead => db = before

C5_Witness ==
    /\ IsRead /\ request.product_id = 0 /\ response.status = 404
    /\ DOMAIN before.rows # {}

\* C6 (as stated): a successful Create answers 201 with the serialized
\* product and a Location header equal to /products/<id>.
C6_AsStated ==
    (IsCreate /\ response.status = 201) =>
        response.location = "/products/" \o response.json.members["id"].val

\* C6 (amended): a successful Create answers 201 with the serialized product
\* including its new integer id, and a Location header that is the absolute
\* URL of that id's Read endpoint: the request's URL root followed by
\* /products/<id>, where Read returns the created product.
C6_CreateResponse ==
    (IsCreate /\ response.status = 201) =>
        LET id == ResponseId(response.json) IN
        /\ response.json.type = "object"
        /\ response.json.members["id"].type = "number"
        /\ id >= 1 /\ id \in DOMAIN db.rows /\ id \notin DOMAIN before.rows
        /\ CarriesFieldsOf(response.json, request.body.data)
        /\ response.location =
              request.url_root \o "/products/" \o response.json.members["id"].val
        /\ ReadOf(db, id) = Reply(200, response.json, "")

C6_Witness ==
    /\ IsCreate /\ response.status = 201
    /\ ResponseId(response.json) = 2
    /\ request.url_root = "https://shop.example.com"

\* C7: Delete answers 204 whether or not the id is stored, and the record
\* is absent from the store after it (taken over the path ids the item route
\* accepts).
C7_DeleteIdempotent ==
    (IsDelete /\ request.product_id >= 0) =>
        (response.status = 204 /\ request.product_id \notin DOMAIN db.rows)

\* C8: the Content-Type guard answers 415 with the message naming the
\* expected type when the header is absent or is not exactly
\* application/json, and passes only on the exact value; when it fails in
\* Create nothing is created.
C8_ContentTypeGuard ==
    /\ ((IsCreate \/ (IsUpdate /\ StoredBefore)) /\ ~ExactJson) =>
          /\ response.status = 415
          /\ response.message = "Content-Type must be application/json"
          /\ db = before
    /\ ((IsCreate \/ (IsUpdate /\ StoredBefore)) /\ ExactJson) =>
          response.status # 415
    /\ response.status \in {200, 201, 400} /\ (IsCreate \/ IsUpdate) => ExactJson

C8_Witness ==
    /\ IsCreate
    /\ request.headers = ContentType("application/json; charset=utf-8")
    /\ request.body \in ValidBodies
    /\ response.status = 415
    /\ db = before

\* C9: in Update the lookup comes before the Content-Type guard: an id that
\* is not stored gets 404 also with a missing or wrong Content-Type, and 415
\* is answered only for a stored id.
C9_LookupBeforeGuard ==
    IsUpdate =>
        /\ (~StoredBefore /\ ~ExactJson) => response.status = 404
        /\ response.status = 415 => StoredBefore

C9_Witness ==
    /\ IsUpdate /\ ~StoredBefore /\ request.product_id > 0
    /\ request.headers = NoHeaders
    /\ response.status = 404

\* C10: a Create or Update that ends in 400 or 415 leaves the store as it
\* was; an Update whose body fails deserialization leaves the record with
\* its prior values, which is what a later Read returns.
C10_NoPartialSuccess ==
    ((IsCreate \/ IsUpdate) /\ response.status \in {400, 415}) =>
        /\ db = before
        /\ (IsUpdate /\ StoredBefore) =>
              ReadOf(db, request.product_id) = ReadOf(before, request.product_id)

C10_Witness ==
    /\ IsUpdate /\ StoredBefore /\ ExactJson
    /\ request.body = MissingPriceBody
    /\ response.status = 400
    /\ before.rows[request.product_id].name # request.body.data.members["name"].val

====
